---- MODULE Spec2Model ----
(***************************************************************************)
(* Model of the temporal context-fact store of the loop repository:        *)
(* ContextFactsStore (src/src/loop/context_store.py) over the              *)
(* context_facts table, with ContextFact (src/src/loop/captures.py).       *)
(*                                                                         *)
(* Timestamps are kept the way the store keeps them: as ISO-8601 text      *)
(* produced by datetime.isoformat() and compared by SQLite as TEXT, that   *)
(* is, character by character.  A text is a sequence of character codes.   *)
(* A datetime is [minute, second, microsecond]; the year, month, day and   *)
(* hour fields are formatted exactly like the minute field (fixed width,   *)
(* zero padded) and are left out.                                          *)
(***************************************************************************)
EXTENDS Integers, Sequences, FiniteSets, TLC

VARIABLES
    table,      \* the rows of context_facts, in rowid order
    result,     \* what the last get_active_facts call returned
    last,       \* the last call on the store: its name, arguments and outcome
    upserts,    \* the upsert_fact calls that returned without raising, in order
    conn,       \* the sqlite3 connection: whether a transaction is open, and the rows at its BEGIN
    threads,    \* the threads calling into one store object: their calls in flight
    input       \* what the last extract or from_dict call was given: the capture id, and
                \* the service's HTTP response or the payload

vars == <<table, result, last, upserts, conn, threads, input>>

\* what a call on the store from the one calling thread leaves alone
elsewhere == <<conn, threads, input>>

----------------------------------------------------------------------------
(* Bounds *)

\* in the runs of upsert_many repeated, the table holds at most RerunRows rows
RerunRows == 4

\* with facts of many identities the table holds at most IdentityRows rows
IdentityRows == 4

\* with facts that carry validity stamps the table holds at most StampedRows rows
StampedRows == 2

\* the generated text holds at most MaxFacts fact payloads
MaxFacts == 2

\* under an AgendaResolver the table holds at most ResolverRows rows
ResolverRows == 3

\* threads are started on a store that sequential calls filled with at most SetupRows rows
SetupRows == 1

\* the table holds at most MaxRows rows
MaxRows == 3
\* upsert_many is called with at most MaxBatch facts
MaxBatch == 3

----------------------------------------------------------------------------
(* Values *)

\* Python None / SQL NULL in a text-or-number position
None == "None"
\* Python None / SQL NULL in a timestamp position (isoformat never yields the empty text)
NoTime == << >>

DateTime(m, s, us) == [minute |-> m, second |-> s, microsecond |-> us]

\* the datetimes used as effective times, reference times and clock readings
Times == { DateTime(0, 9, 0), DateTime(0, 9, 500000), DateTime(0, 10, 0) }

\* chronological order of datetimes (datetime.__lt__ / __le__)
DtLess(a, b) ==
    \/ a.minute < b.minute
    \/ a.minute = b.minute /\ a.second < b.second
    \/ a.minute = b.minute /\ a.second = b.second /\ a.microsecond < b.microsecond

DtLeq(a, b) == a = b \/ DtLess(a, b)

\* character codes
ChDot == 46
ChZero == 48
ChColon == 58

Digit(d) == ChZero + d

\* "%02d"
TwoDigits(n) == << Digit((n \div 10) % 10), Digit(n % 10) >>

\* "%06d"
SixDigits(n) ==
    << Digit((n \div 100000) % 10), Digit((n \div 10000) % 10), Digit((n \div 1000) % 10),
       Digit((n \div 100) % 10), Digit((n \div 10) % 10), Digit(n % 10) >>

\* datetime.isoformat(): MM:SS, followed by .ffffff only when microsecond is not 0
isoformat(dt) ==
    TwoDigits(dt.minute) \o << ChColon >> \o TwoDigits(dt.second)
        \o (IF dt.microsecond = 0 THEN << >> ELSE << ChDot >> \o SixDigits(dt.microsecond))

Num2(s, i) == (s[i] - ChZero) * 10 + (s[i + 1] - ChZero)

Num6(s, i) ==
    (s[i] - ChZero) * 100000 + (s[i + 1] - ChZero) * 10000 + (s[i + 2] - ChZero) * 1000
        + (s[i + 3] - ChZero) * 100 + (s[i + 4] - ChZero) * 10 + (s[i + 5] - ChZero)

\* datetime.fromisoformat()
fromisoformat(s) ==
    DateTime(Num2(s, 1), Num2(s, 4), IF Len(s) > 5 THEN Num6(s, 7) ELSE 0)

\* SQLite's comparison of two TEXT values (BINARY collation: memcmp, then length)
RECURSIVE TextLessFrom(_, _, _)
TextLessFrom(a, b, i) ==
    IF i > Len(a) THEN i <= Len(b)
    ELSE IF i > Len(b) THEN FALSE
    ELSE IF a[i] # b[i] THEN a[i] < b[i]
    ELSE TextLessFrom(a, b, i + 1)

TextLess(a, b) == TextLessFrom(a, b, 1)

TextLeq(a, b) == a = b \/ TextLess(a, b)

----------------------------------------------------------------------------
(* ContextFact and the facts handed to the store *)

ContextFact(c, d, tr, loc, conf, src, vf, vt) ==
    [category |-> c, detail |-> d, time_range |-> tr, location |-> loc,
     confidence |-> conf, source_capture_id |-> src, valid_from |-> vf, valid_to |-> vt]

\* the identity tuple of a fact or of a row
Identity(f) == << f.category, f.detail, f.time_range, f.location >>

\* identity tuples used as input; they differ only in an absent time_range
IdentityA == << "schedule", "Works Friday", "Fridays 3pm", "HQ" >>
IdentityB == << "schedule", "Works Friday", None, "HQ" >>

Identities == { IdentityA, IdentityB }

Fact(i, conf, src) == ContextFact(i[1], i[2], i[3], i[4], conf, src, NoTime, NoTime)

\* the facts handed to the store; a confidence of None is rejected by NOT NULL
Facts ==
    { Fact(IdentityA, "0.8", "cap-a"), Fact(IdentityA, "0.9", "cap-b"),
      Fact(IdentityA, None, "cap-c"), Fact(IdentityB, "0.9", "cap-b") }

----------------------------------------------------------------------------
(* SQL expressions: three-valued logic *)

SqlEq(a, b) == IF a = None \/ b = None THEN "null" ELSE IF a = b THEN "true" ELSE "false"

SqlIsNull(a) == IF a = None THEN "true" ELSE "false"

SqlAnd(p, q) ==
    IF p = "false" \/ q = "false" THEN "false"
    ELSE IF p = "null" \/ q = "null" THEN "null"
    ELSE "true"

SqlOr(p, q) ==
    IF p = "true" \/ q = "true" THEN "true"
    ELSE IF p = "null" \/ q = "null" THEN "null"
    ELSE "false"

\* UpdateWhere with time_range = ? and location = ? alone: NULL never equals NULL
UpdateWherePlainEq(row, fact) ==
    SqlAnd(IF row.valid_to = NoTime THEN "true" ELSE "false",
    SqlAnd(SqlEq(row.category, fact.category),
    SqlAnd(SqlEq(row.detail, fact.detail),
    SqlAnd(SqlEq(row.time_range, fact.time_range),
           SqlEq(row.location, fact.location))))) = "true"

\* UpdateWhere without `valid_to IS NULL`: closed rows of the identity are stamped again
UpdateWhereAnyRow(row, fact) ==
    SqlAnd(SqlEq(row.category, fact.category),
    SqlAnd(SqlEq(row.detail, fact.detail),
    SqlAnd(SqlOr(SqlEq(row.time_range, fact.time_range),
                 SqlAnd(SqlIsNull(row.time_range), SqlIsNull(fact.time_range))),
           SqlOr(SqlEq(row.location, fact.location),
                 SqlAnd(SqlIsNull(row.location), SqlIsNull(fact.location)))))) = "true"

\* UpdateWhere where an absent time_range or location parameter matches any row
UpdateWhereNullMatchesAny(row, fact) ==
    SqlAnd(IF row.valid_to = NoTime THEN "true" ELSE "false",
    SqlAnd(SqlEq(row.category, fact.category),
    SqlAnd(SqlEq(row.detail, fact.detail),
    SqlAnd(SqlOr(SqlEq(row.time_range, fact.time_range), SqlIsNull(fact.time_range)),
           SqlOr(SqlEq(row.location, fact.location), SqlIsNull(fact.location)))))) = "true"

\* UpdateWhere without `detail = ?`: a fact closes records of other wording
UpdateWhereIgnoresDetail(row, fact) ==
    SqlAnd(IF row.valid_to = NoTime THEN "true" ELSE "false",
    SqlAnd(SqlEq(row.category, fact.category),
    SqlAnd(SqlOr(SqlEq(row.time_range, fact.time_range),
                 SqlAnd(SqlIsNull(row.time_range), SqlIsNull(fact.time_range))),
           SqlOr(SqlEq(row.location, fact.location),
                 SqlAnd(SqlIsNull(row.location), SqlIsNull(fact.location)))))) = "true"

\* the WHERE clause of the close-out UPDATE, for one row and the identity_params of fact
UpdateWhere(row, fact) ==
    SqlAnd(IF row.valid_to = NoTime THEN "true" ELSE "false",
    SqlAnd(SqlEq(row.category, fact.category),
    SqlAnd(SqlEq(row.detail, fact.detail),
    SqlAnd(SqlOr(SqlEq(row.time_range, fact.time_range),
                 SqlAnd(SqlIsNull(row.time_range), SqlIsNull(fact.time_range))),
           SqlOr(SqlEq(row.location, fact.location),
                 SqlAnd(SqlIsNull(row.location), SqlIsNull(fact.location))))))) = "true"

\* CloseOut that ends the window where it began instead of at the effective time
CloseOutAtValidFrom(tbl, fact, stamp) ==
    [i \in DOMAIN tbl |->
        IF UpdateWhere(tbl[i], fact) THEN [tbl[i] EXCEPT !.valid_to = tbl[i].valid_from]
        ELSE tbl[i]]

\* UPDATE context_facts SET valid_to = ? WHERE ...
CloseOut(tbl, fact, stamp) ==
    [i \in DOMAIN tbl |->
        IF UpdateWhere(tbl[i], fact) THEN [tbl[i] EXCEPT !.valid_to = stamp] ELSE tbl[i]]

\* the NOT NULL constraints of the schema on the inserted values
NotNullOK(fact) ==
    /\ fact.category # None
    /\ fact.detail # None
    /\ fact.confidence # None
    /\ fact.source_capture_id # None

\* NewRow with valid_from formatted to whole seconds, unlike the close-out stamp
NewRowWholeSeconds(tbl, fact, stamp) ==
    [id |-> Len(tbl) + 1,
     category |-> fact.category, detail |-> fact.detail,
     time_range |-> fact.time_range, location |-> fact.location,
     confidence |-> fact.confidence, source_capture_id |-> fact.source_capture_id,
     valid_from |-> SubSeq(stamp, 1, 5), valid_to |-> NoTime]

\* NewRow that keeps the validity stamps the fact came with, when it has any
NewRowKeepsFactStamps(tbl, fact, stamp) ==
    [id |-> Len(tbl) + 1,
     category |-> fact.category, detail |-> fact.detail,
     time_range |-> fact.time_range, location |-> fact.location,
     confidence |-> fact.confidence, source_capture_id |-> fact.source_capture_id,
     valid_from |-> IF fact.valid_from # NoTime THEN isoformat(fact.valid_from) ELSE stamp,
     valid_to |-> IF fact.valid_to # NoTime THEN isoformat(fact.valid_to) ELSE NoTime]

\* the row of INSERT INTO context_facts (...) VALUES (?, ?, ?, ?, ?, ?, ?, NULL)
NewRow(tbl, fact, stamp) ==
    [id |-> Len(tbl) + 1,
     category |-> fact.category, detail |-> fact.detail,
     time_range |-> fact.time_range, location |-> fact.location,
     confidence |-> fact.confidence, source_capture_id |-> fact.source_capture_id,
     valid_from |-> stamp, valid_to |-> NoTime]

\* ConnectionExit that commits what the block did even when it raised
ConnectionExitCommits(before, working, raised) == working

\* `with self._connection:` on exit: commit, or roll back when the block raised
ConnectionExit(before, working, raised) == IF raised # None THEN before ELSE working

\* effective_time or datetime.utcnow()
OrUtcNow(t, clock) == IF t = NoTime THEN clock ELSE t

\* upsert_fact on table tbl: the table it leaves and the exception it raises (None: none)
UpsertFact(tbl, fact, effective_time) ==
    LET stamp == isoformat(effective_time)
        closed == CloseOut(tbl, fact, stamp)
        raised == IF NotNullOK(fact) THEN None ELSE "IntegrityError"
        working == IF raised = None THEN Append(closed, NewRow(closed, fact, stamp)) ELSE closed
    IN  [table |-> ConnectionExit(tbl, working, raised), raised |-> raised]

\* UpsertMany that catches the failure of one fact and goes on with the next
RECURSIVE UpsertManyKeepsGoing(_, _, _, _)
UpsertManyKeepsGoing(tbl, facts, times, k) ==
    IF k > Len(facts) THEN [table |-> tbl, raised |-> None, calls |-> k - 1]
    ELSE LET r == UpsertFact(tbl, facts[k], times[k])
             rest == UpsertManyKeepsGoing(r.table, facts, times, k + 1)
         IN  IF r.raised # None THEN [table |-> rest.table, raised |-> r.raised, calls |-> k]
             ELSE rest

\* upsert_many: upsert_fact for facts[k], facts[k+1], ... until one raises.
\* times[i] is the effective time of the i-th call.
RECURSIVE UpsertMany(_, _, _, _)
UpsertMany(tbl, facts, times, k) ==
    IF k > Len(facts) THEN [table |-> tbl, raised |-> None, calls |-> k - 1]
    ELSE LET r == UpsertFact(tbl, facts[k], times[k])
         IN  IF r.raised # None THEN [table |-> r.table, raised |-> r.raised, calls |-> k]
             ELSE UpsertMany(r.table, facts, times, k + 1)

----------------------------------------------------------------------------
(* get_active_facts *)

\* _row_to_fact
RowToFact(row) ==
    ContextFact(row.category, row.detail, row.time_range, row.location,
                row.confidence, row.source_capture_id,
                fromisoformat(row.valid_from),
                IF row.valid_to # << >> THEN fromisoformat(row.valid_to) ELSE NoTime)

\* SelectWhere with valid_to >= ?: a record is still returned at the instant it was closed
SelectWhereClosedIncluded(row, stamp) ==
    /\ TextLeq(row.valid_from, stamp)
    /\ (row.valid_to = NoTime \/ TextLeq(stamp, row.valid_to))

\* SelectWhere with valid_from < ?: a record is not returned at the instant it starts
SelectWhereStartExcluded(row, stamp) ==
    /\ TextLess(row.valid_from, stamp)
    /\ (row.valid_to = NoTime \/ TextLess(stamp, row.valid_to))

\* WHERE valid_from <= ? AND (valid_to IS NULL OR valid_to > ?)
SelectWhere(row, stamp) ==
    /\ TextLeq(row.valid_from, stamp)
    /\ (row.valid_to = NoTime \/ TextLess(stamp, row.valid_to))

\* ORDER BY valid_from DESC: every order of the selected rows that SQLite may produce
\* (the order of rows with equal valid_from is not defined by the query)
OrderByValidFromDesc(tbl, S) ==
    { p \in [1 .. Cardinality(S) -> S] :
        /\ \A i, j \in DOMAIN p : i # j => p[i] # p[j]
        /\ \A i, j \in DOMAIN p :
              i < j => ~TextLess(tbl[p[i]].valid_from, tbl[p[j]].valid_from) }

\* the lists get_active_facts(reference_time) may return on table tbl
GetActiveFacts(tbl, reference_time) ==
    LET stamp == isoformat(reference_time)
        S == { i \in DOMAIN tbl : SelectWhere(tbl[i], stamp) }
    IN  { [k \in DOMAIN p |-> RowToFact(tbl[p[k]])] : p \in OrderByValidFromDesc(tbl, S) }

----------------------------------------------------------------------------------------------------------------------------------------------------------------------------------------------------
(* The store as a state machine *)

\* the record of a call: its name, the effective (or reference) time it ran with
\* (NoTime: an upsert_many left to read the clock for each fact), the facts it tried
\* to upsert, the time each upsert_fact used, how many facts it was given, what it raised
Call(op, arg, facts, times, given, raised) ==
    [op |-> op, arg |-> arg, facts |-> facts, times |-> times, given |-> given,
     raised |-> raised]

\* an upsert_fact call that returned: the fact and the effective time it used
Upsert(fact, t) == [fact |-> fact, time |-> t]

\* the connection outside a transaction (sqlite3.Connection.in_transaction is False)
Autocommit == [in_transaction |-> FALSE, begin |-> << >>]

\* no thread besides the calling one has been started
NoThreads == [base |-> << >>, call |-> << >>]

\* no extract or from_dict call has been made
NoInput == [capture_id |-> None, status |-> 0, body |-> [t |-> "null"]]

\* CREATE TABLE IF NOT EXISTS context_facts: the rows of the table afterwards
CreateTableDropFirst(tbl, exists) == << >>

CreateTableIfNotExists(tbl, exists) == IF exists THEN tbl ELSE << >>

\* initialize(): executescript(SCHEMA); __init__ has created the table already
Initialize(tbl) == CreateTableIfNotExists(tbl, TRUE)

\* ContextFactsStore(":memory:"): a fresh database with the schema and no rows
Init ==
    /\ table = << >>
    /\ result = << >>
    /\ last = Call("__init__", NoTime, << >>, << >>, 0, None)
    /\ upserts = << >>
    /\ conn = Autocommit
    /\ threads = NoThreads
    /\ input = NoInput

\* store.upsert_fact(fact, effective_time); clock is what datetime.utcnow() reads;
\* the call is made while the table has room for cap rows
UpsertFactStep(fact, effective_time, clock, cap) ==
    LET t == OrUtcNow(effective_time, clock)
        r == UpsertFact(table, fact, t)
    IN  /\ Len(table) < cap
        /\ table' = r.table
        /\ last' = Call("upsert_fact", t, << fact >>, << t >>, 1, r.raised)
        /\ upserts' = IF r.raised = None THEN Append(upserts, Upsert(fact, t)) ELSE upserts
        /\ result' = << >>
        /\ UNCHANGED elsewhere

UpsertFactCall(fact, effective_time, clock) ==
    UpsertFactStep(fact, effective_time, clock, MaxRows)

\* store.upsert_many(facts, effective_time); clocks[i] is what datetime.utcnow()
\* reads in the i-th upsert_fact call: without an effective time every call reads
\* the clock itself
UpsertManyStep(facts, effective_time, clocks, cap) ==
    LET times == [i \in DOMAIN facts |-> OrUtcNow(effective_time, clocks[i])]
        r == UpsertMany(table, facts, times, 1)
        returned == IF r.raised = None THEN r.calls ELSE r.calls - 1
    IN  /\ Len(table) + Len(facts) <= cap
        /\ table' = r.table
        /\ last' = Call("upsert_many", effective_time, SubSeq(facts, 1, r.calls),
                        SubSeq(times, 1, r.calls), Len(facts), r.raised)
        /\ upserts' = upserts \o [i \in 1 .. returned |-> Upsert(facts[i], times[i])]
        /\ result' = << >>
        /\ UNCHANGED elsewhere

UpsertManyCall(facts, effective_time, clocks) ==
    UpsertManyStep(facts, effective_time, clocks, MaxRows)

\* get_active_facts that deletes the closed records it passes over
GetActiveFactsCallPurging(reference_time, clock) ==
    LET t == OrUtcNow(reference_time, clock)
    IN  /\ result' \in GetActiveFacts(table, t)
        /\ last' = Call("get_active_facts", t, << >>, << t >>, 0, None)
        /\ table' = SelectSeq(table, LAMBDA row : row.valid_to = NoTime)
        /\ UNCHANGED upserts
        /\ UNCHANGED elsewhere

\* store.get_active_facts(reference_time)
GetActiveFactsCall(reference_time, clock) ==
    LET t == OrUtcNow(reference_time, clock)
    IN  /\ result' \in GetActiveFacts(table, t)
        /\ last' = Call("get_active_facts", t, << >>, << t >>, 0, None)
        /\ UNCHANGED <<table, upserts>>
        /\ UNCHANGED elsewhere

\* store.initialize()
InitializeCall ==
    /\ table' = Initialize(table)
    /\ last' = Call("initialize", NoTime, << >>, << >>, 0, None)
    /\ result' = << >>
    /\ UNCHANGED upserts
    /\ UNCHANGED elsewhere

\* the facts handed to upsert_many: one of each identity, and one the schema rejects
BatchFacts == { f \in Facts : f.source_capture_id \in {"cap-b", "cap-c"} }

\* the lists of facts handed to upsert_many
Batches == UNION { [1 .. n -> BatchFacts] : n \in 0 .. MaxBatch }

\* clock readings of successive calls: the clock does not run backwards within one batch
Clocks(n) == { c \in [1 .. n -> Times] : \A i, j \in 1 .. n : i < j => DtLeq(c[i], c[j]) }

Next ==
    \/ \E f \in Facts, t \in Times : UpsertFactCall(f, t, t)
    \/ \E f \in Facts, c \in Times : UpsertFactCall(f, NoTime, c)
    \/ \E fs \in Batches, t \in Times : UpsertManyCall(fs, t, [i \in DOMAIN fs |-> t])
    \/ \E fs \in Batches : \E c \in Clocks(Len(fs)) : UpsertManyCall(fs, NoTime, c)
    \/ \E t \in Times : GetActiveFactsCall(t, t)
    \/ \E c \in Times : GetActiveFactsCall(NoTime, c)
    \/ InitializeCall

Spec == Init /\ [][Next]_vars

TypeOK ==
    /\ Len(table) <= MaxRows
    /\ \A i \in DOMAIN table : table[i].id = i
    /\ Len(upserts) = Len(table)

----------------------------------------------------------------------------
(* Properties of the store *)

SameIdentity(a, b) == Identity(a) = Identity(b)

IsOpen(row) == row.valid_to = NoTime

\* C1: after any sequence of upsert_fact and upsert_many calls, no two stored records
\* of one identity tuple both have valid_to = null.
C1_AtMostOneOpenPerIdentity ==
    \A i, j \in DOMAIN table :
        (i # j /\ SameIdentity(table[i], table[j])) => ~(IsOpen(table[i]) /\ IsOpen(table[j]))

\* an upsert of the identity with absent time_range has superseded an earlier record
\* of it, while the other identity has an open record too
C1_Witness ==
    \E i, j, k \in DOMAIN table :
        /\ i < j
        /\ Identity(table[i]) = IdentityB /\ Identity(table[j]) = IdentityB
        /\ ~IsOpen(table[i]) /\ IsOpen(table[j])
        /\ Identity(table[k]) = IdentityA /\ IsOpen(table[k])

\* C5: every record with a non-null valid_to has a later-inserted record of the same
\* identity whose valid_from is that valid_to.
C5_ClosedHasSuperseder ==
    \A i \in DOMAIN table :
        ~IsOpen(table[i]) =>
            \E j \in DOMAIN table :
                /\ j > i
                /\ SameIdentity(table[i], table[j])
                /\ table[j].valid_from = table[i].valid_to

\* a record was closed at an effective time that has microseconds
C5_Witness ==
    \E i \in DOMAIN table :
        /\ ~IsOpen(table[i])
        /\ table[i].valid_to = isoformat(DateTime(0, 9, 500000))

\* C8: a step of the store removes no record and changes an existing record at most
\* by writing its valid_to once, from null to a timestamp.
C8_OnlyCloseOutWrites ==
    [][ /\ Len(table') >= Len(table)
        /\ \A i \in DOMAIN table :
              \/ table'[i] = table[i]
              \/ /\ IsOpen(table[i])
                 /\ ~IsOpen(table'[i])
                 /\ table'[i] = [table[i] EXCEPT !.valid_to = table'[i].valid_to] ]_vars

\* a closed record has been through a later upsert of its own identity
C8_Witness ==
    /\ last.op = "upsert_fact" /\ last.raised = None
    /\ \E i, j \in DOMAIN table :
        /\ i < j /\ j < Len(table)
        /\ ~IsOpen(table[i]) /\ ~IsOpen(table[j])
        /\ SameIdentity(table[i], last.facts[1])
        /\ SameIdentity(table[j], last.facts[1])

\* C9: an upsert_fact whose insert fails raises and leaves the store as it was before
\* the call, the open record its close-out matched included.
C9_FailedUpsertRollsBack ==
    [][ (last'.op = "upsert_fact" /\ last'.raised # None) => table' = table ]_vars

\* an upsert_fact raised IntegrityError while an open record of its identity is stored
C9_Witness ==
    /\ last.op = "upsert_fact" /\ last.raised = "IntegrityError"
    /\ last.facts[1].confidence = None
    /\ \E i \in DOMAIN table : IsOpen(table[i]) /\ SameIdentity(table[i], last.facts[1])

----------------------------------------------------------------------------
(* Properties of get_active_facts *)

\* the datetime a stored timestamp text stands for
Denotes(text) == CHOOSE d \in Times : isoformat(d) = text

StoredFrom(row) == Denotes(row.valid_from)

StoredTo(row) == IF IsOpen(row) THEN NoTime ELSE Denotes(row.valid_to)

\* the record, as a ContextFact
AsFact(row) ==
    ContextFact(row.category, row.detail, row.time_range, row.location,
                row.confidence, row.source_capture_id, StoredFrom(row), StoredTo(row))

\* valid_from <= t and (valid_to is null or valid_to > t), in time
ValidAt(row, t) ==
    /\ DtLeq(StoredFrom(row), t)
    /\ (IsOpen(row) \/ DtLess(t, StoredTo(row)))

\* the positions of a returned list that hold a fact of identity idt
OfIdentity(res, idt) == { k \in DOMAIN res : Identity(res[k]) = idt }

\* C2 (as claimed): whatever the order of the effective times, get_active_facts(t)
\* never returns two records of one identity.
C2_OneActivePerIdentityAnyOrder ==
    \A t \in Times : \A res \in GetActiveFacts(table, t) :
        \A idt \in Identities : Cardinality(OfIdentity(res, idt)) <= 1

\* C3 (as claimed): right after upsert_fact(fact, e) returns, the inserted record is
\* the only one of its identity with valid_to = null, and get_active_facts(e) returns
\* that record and no other of the identity.
C3_NewRecordIsTheActiveOne ==
    (last.op = "upsert_fact" /\ last.raised = None) =>
        LET fact == last.facts[1]
            new == table[Len(table)]
        IN  /\ SameIdentity(new, fact) /\ IsOpen(new)
            /\ \A i \in DOMAIN table :
                  (SameIdentity(table[i], fact) /\ IsOpen(table[i])) => i = Len(table)
            /\ \A res \in GetActiveFacts(table, last.arg) :
                  /\ Cardinality(OfIdentity(res, Identity(fact))) = 1
                  /\ \A k \in OfIdentity(res, Identity(fact)) : res[k] = AsFact(new)

\* the upsert_fact calls of identity idt that returned, as positions of upserts
UpsertsOf(idt) == { n \in DOMAIN upserts : Identity(upserts[n].fact) = idt }

StrictlyIncreasing(idt) ==
    \A a, b \in UpsertsOf(idt) : a < b => DtLess(upserts[a].time, upserts[b].time)

\* C4: when the upserts of an identity had strictly increasing effective times
\* e1 < ... < eN, get_active_facts(t) for t >= eN returns one record of the identity,
\* with valid_from = eN and the confidence and source_capture_id of the Nth fact.
C4_LatestVersionIsActive ==
    \A idt \in Identities :
        (UpsertsOf(idt) # {} /\ StrictlyIncreasing(idt)) =>
            LET nth == upserts[CHOOSE n \in UpsertsOf(idt) : \A m \in UpsertsOf(idt) : m <= n]
            IN  \A t \in Times :
                    DtLeq(nth.time, t) =>
                        \A res \in GetActiveFacts(table, t) :
                            /\ Cardinality(OfIdentity(res, idt)) = 1
                            /\ \A k \in OfIdentity(res, idt) :
                                  /\ res[k].valid_from = nth.time
                                  /\ res[k].confidence = nth.fact.confidence
                                  /\ res[k].source_capture_id = nth.fact.source_capture_id
                                  /\ res[k].valid_to = NoTime

\* three upserts of one identity at increasing times, then a query at the last of them
C4_Witness ==
    /\ Cardinality(UpsertsOf(IdentityA)) = 3 /\ StrictlyIncreasing(IdentityA)
    /\ upserts[2].fact.confidence # upserts[3].fact.confidence
    /\ last.op = "get_active_facts" /\ last.arg = upserts[3].time
    /\ Len(result) = 1 /\ result[1].source_capture_id = upserts[3].fact.source_capture_id

\* C6: get_active_facts(t) returns the stored records with valid_from <= t and
\* (valid_to null or valid_to > t), each once, by non-increasing valid_from.
C6_GetActiveFactsSelects ==
    last.op = "get_active_facts" =>
        LET t == last.arg
            E == { i \in DOMAIN table : ValidAt(table[i], t) }
        IN  /\ Len(result) = Cardinality(E)
            /\ \E p \in [DOMAIN result -> E] :
                  /\ \A k, l \in DOMAIN result : k # l => p[k] # p[l]
                  /\ \A k \in DOMAIN result : result[k] = AsFact(table[p[k]])
            /\ \A k, l \in DOMAIN result :
                  k < l => DtLeq(result[l].valid_from, result[k].valid_from)

\* a query at the instant one record was closed and its successor started, with a
\* record of the other identity that started earlier
C6_Witness ==
    /\ last.op = "get_active_facts"
    /\ Len(result) = 2
    /\ DtLess(result[2].valid_from, result[1].valid_from)
    /\ result[1].valid_from = last.arg
    /\ \E i \in DOMAIN table : ~IsOpen(table[i]) /\ StoredTo(table[i]) = last.arg

\* C7 (as claimed): get_active_facts(t) returns no record of an identity when t is before
\* all its valid_from, and returns record r and no other of its identity when t is
\* strictly inside r's validity window.
C7_WindowsSelectOneRecord ==
    \A idt \in Identities : \A t \in Times : \A res \in GetActiveFacts(table, t) :
        LET R == { i \in DOMAIN table : Identity(table[i]) = idt }
        IN  /\ (\A i \in R : DtLess(t, StoredFrom(table[i]))) => OfIdentity(res, idt) = {}
            /\ \A i \in R :
                  (/\ DtLess(StoredFrom(table[i]), t)
                   /\ (IsOpen(table[i]) \/ DtLess(t, StoredTo(table[i])))) =>
                      /\ Cardinality(OfIdentity(res, idt)) = 1
                      /\ \A k \in OfIdentity(res, idt) : res[k] = AsFact(table[i])

----------------------------------------------------------------------------
(* Properties of upsert_many *)

\* upsert_fact applied to facts[1], ..., facts[m] in this order
RECURSIVE InOrder(_, _, _, _)
InOrder(tbl, facts, times, m) ==
    IF m = 0 THEN tbl
    ELSE UpsertFact(InOrder(tbl, facts, times, m - 1), facts[m], times[m]).table

\* C10: upsert_many(facts, t) upserts the facts in order at the one time t; when the
\* k-th upsert fails the error propagates, upserts 1..k-1 stay committed, the k-th has
\* no effect and the facts after it are not applied.
C10_UpsertManyStopsAtFailure ==
    [][ last'.op = "upsert_many" =>
          LET fs == last'.facts
              ts == last'.times
              k == Len(fs)
              failed == last'.raised # None
              m == IF failed THEN k - 1 ELSE k
          IN  /\ k <= last'.given
              /\ failed => (k >= 1 /\ ~NotNullOK(fs[k]))
              /\ ~failed => k = last'.given
              /\ \A i \in 1 .. m : NotNullOK(fs[i])
              /\ last'.arg # NoTime => \A i \in 1 .. k : ts[i] = last'.arg
              /\ Len(table') = Len(table) + m
              /\ \A i \in 1 .. m :
                    /\ SameIdentity(table'[Len(table) + i], fs[i])
                    /\ table'[Len(table) + i].confidence = fs[i].confidence
                    /\ table'[Len(table) + i].source_capture_id = fs[i].source_capture_id
                    /\ table'[Len(table) + i].valid_from = isoformat(ts[i])
              /\ table' = InOrder(table, fs, ts, m) ]_vars

\* an upsert_many of three facts at one time whose second fact was rejected: the
\* first is stored, nothing else is
C10_Witness ==
    /\ last.op = "upsert_many" /\ last.raised = "IntegrityError"
    /\ last.arg # NoTime
    /\ last.given = 3 /\ Len(last.facts) = 2
    /\ Len(table) = 1
    /\ IsOpen(table[1]) /\ SameIdentity(table[1], last.facts[1])
    /\ table[1].valid_from = isoformat(last.arg)

----------------------------------------------------------------------------
(* Properties of initialize *)

\* C16: initialize() on a store in any state leaves every record as it was, and
\* get_active_facts(t) may return the same lists before and after, for every t.
C16_InitializeIsIdempotent ==
    [][ last'.op = "initialize" =>
          /\ table' = table
          /\ \A t \in Times : GetActiveFacts(table', t) = GetActiveFacts(table, t) ]_vars

\* initialize() was called on a store holding a closed and an open record
C16_Witness ==
    /\ last.op = "initialize"
    /\ \E i, j \in DOMAIN table : ~IsOpen(table[i]) /\ IsOpen(table[j])

----------------------------------------------------------------------------
(* upsert_many run again with the same facts *)

RerunFacts == { Fact(IdentityA, "0.9", "cap-b"), Fact(IdentityB, "0.9", "cap-b") }

\* non-empty lists of facts of pairwise distinct identities
RerunBatches ==
    { fs \in UNION { [1 .. n -> RerunFacts] : n \in 1 .. 2 } :
        \A i, j \in DOMAIN fs : i # j => ~SameIdentity(fs[i], fs[j]) }

RerunNext ==
    \/ \E f \in RerunFacts, t \in Times : UpsertFactStep(f, t, t, RerunRows)
    \/ \E fs \in RerunBatches, t \in Times :
          UpsertManyStep(fs, t, [i \in DOMAIN fs |-> t], RerunRows)

SpecRerun == Init /\ [][RerunNext]_vars

\* C11 (as claimed): upsert_many run a second time with the same facts (pairwise
\* distinct identities) and a later effective time t2 closes the records the first run
\* opened with valid_to = t2, adds one record with valid_from = t2 per identity, and
\* get_active_facts(t) for t >= t2 then holds exactly that record of each identity.
C11_RerunGivesOneActiveVersion ==
    [][ (/\ last.op = "upsert_many" /\ last.raised = None /\ last.arg # NoTime
         /\ last'.op = "upsert_many" /\ last'.raised = None /\ last'.arg # NoTime
         /\ last'.facts = last.facts /\ last'.given = last.given
         /\ DtLess(last.arg, last'.arg)
         /\ \A i, j \in DOMAIN last.facts :
               i # j => ~SameIdentity(last.facts[i], last.facts[j]))
        =>
        LET fs == last.facts
            k == Len(fs)
            n == Len(table)
            stamp == isoformat(last'.arg)
        IN  /\ Len(table') = n + k
            /\ \A i \in 1 .. k :
                  /\ table'[n - k + i] = [table[n - k + i] EXCEPT !.valid_to = stamp]
                  /\ SameIdentity(table'[n + i], fs[i])
                  /\ table'[n + i].valid_from = stamp
                  /\ IsOpen(table'[n + i])
            /\ \A t \in Times :
                  DtLeq(last'.arg, t) =>
                      \A res \in GetActiveFacts(table', t) : \A i \in 1 .. k :
                          /\ Cardinality(OfIdentity(res, Identity(fs[i]))) = 1
                          /\ \A x \in OfIdentity(res, Identity(fs[i])) :
                                res[x] = AsFact(table'[n + i]) ]_vars

----------------------------------------------------------------------------
(* One store object, one connection (check_same_thread=False), several threads.
   The connection serializes single statements; a thread can run between two
   statements of another thread's upsert_fact. *)

\* a thread about to call store.upsert_fact(fact, time)
Thread(fact, time) == [pc |-> "ready", fact |-> fact, time |-> time]

\* sqlite3 opens a transaction before an UPDATE or INSERT when none is open
ImplicitBegin(c, tbl) ==
    IF c.in_transaction THEN c ELSE [in_transaction |-> TRUE, begin |-> tbl]

\* Connection.rollback(): back to where the open transaction began
Rollback(c, tbl) == IF c.in_transaction THEN c.begin ELSE tbl

\* threads calling upsert_fact are started on the store as it is now
Start(calls) ==
    /\ threads = NoThreads
    /\ threads' = [base |-> table, call |-> calls]
    /\ UNCHANGED <<table, result, last, upserts, conn, input>>

\* thread th enters `with self._connection:` and executes the close-out UPDATE
CloseOutStep(th) ==
    LET c == threads.call[th]
    IN  /\ c.pc = "ready"
        /\ conn' = ImplicitBegin(conn, table)
        /\ table' = CloseOut(table, c.fact, isoformat(c.time))
        /\ threads' = [threads EXCEPT !.call[th].pc = "updated"]
        /\ UNCHANGED <<result, last, upserts, input>>

\* thread th executes the INSERT, which raises when a NOT NULL column gets None
InsertStep(th) ==
    LET c == threads.call[th]
    IN  /\ c.pc = "updated"
        /\ conn' = ImplicitBegin(conn, table)
        /\ IF NotNullOK(c.fact)
           THEN /\ table' = Append(table, NewRow(table, c.fact, isoformat(c.time)))
                /\ threads' = [threads EXCEPT !.call[th].pc = "inserted"]
           ELSE /\ table' = table
                /\ threads' = [threads EXCEPT !.call[th].pc = "raised"]
        /\ UNCHANGED <<result, last, upserts, input>>

\* thread th leaves `with self._connection:`: commit, or rollback when INSERT raised
ExitStep(th) ==
    LET c == threads.call[th]
    IN  /\ c.pc \in {"inserted", "raised"}
        /\ table' = ConnectionExit(Rollback(conn, table), table,
                                   IF c.pc = "raised" THEN "IntegrityError" ELSE None)
        /\ conn' = Autocommit
        /\ threads' = [threads EXCEPT !.call[th].pc = "done"]
        /\ UNCHANGED <<result, last, upserts, input>>

\* another thread calls store.get_active_facts(t) on the same connection
ReadStep(t) ==
    /\ threads # NoThreads
    /\ result' \in GetActiveFacts(table, t)
    /\ last' = Call("get_active_facts", t, << >>, << t >>, 0, None)
    /\ UNCHANGED <<table, upserts, conn, threads, input>>

\* the store is filled by sequential calls before any thread is started
Setup == \E f \in Facts, t \in Times : threads = NoThreads /\ UpsertFactStep(f, t, t, SetupRows)

ReaderNext ==
    \/ Setup
    \/ \E f \in Facts, t \in Times : Start(<< Thread(f, t) >>)
    \/ \E th \in DOMAIN threads.call : CloseOutStep(th)
    \/ \E th \in DOMAIN threads.call : InsertStep(th)
    \/ \E th \in DOMAIN threads.call : ExitStep(th)
    \/ \E t \in Times : ReadStep(t)

SpecReader == Init /\ [][ReaderNext]_vars

\* thread th is between the first statement of upsert_fact and its return
InFlight(th) == threads.call[th].pc \in {"updated", "inserted", "raised"}

\* C12 (as claimed): get_active_facts called from another thread while an upsert_fact of
\* an identity with an open record is in flight returns what it would return on the
\* store before that upsert_fact or on the store after it, never on a state between
\* the close-out UPDATE and the INSERT.
C12_ReaderSeesPreOrPost ==
    [][ (/\ Len(threads.call) = 1
         /\ InFlight(1)
         /\ \E i \in DOMAIN threads.base :
               IsOpen(threads.base[i]) /\ SameIdentity(threads.base[i], threads.call[1].fact)
         /\ threads' = threads /\ table' = table
         /\ last'.op = "get_active_facts")
        =>
        LET pre == threads.base
            post == UpsertFact(pre, threads.call[1].fact, threads.call[1].time).table
        IN  result' \in GetActiveFacts(pre, last'.arg) \cup GetActiveFacts(post, last'.arg)
      ]_vars

----------------------------------------------------------------------------
(* Two threads calling upsert_fact on the same store *)

WritersNext ==
    \/ Setup
    \/ \E f, g \in Facts, t, u \in Times : Start(<< Thread(f, t), Thread(g, u) >>)
    \/ \E th \in DOMAIN threads.call : CloseOutStep(th)
    \/ \E th \in DOMAIN threads.call : InsertStep(th)
    \/ \E th \in DOMAIN threads.call : ExitStep(th)

SpecWriters == Init /\ [][WritersNext]_vars

\* the table after upsert_fact of call c and then of call d, one after the other
InSequence(tbl, c, d) == UpsertFact(UpsertFact(tbl, c.fact, c.time).table, d.fact, d.time).table

\* C18 (as claimed): when two threads have each finished one upsert_fact of the same
\* identity on the same store, the table is the one that the two calls made one after
\* the other, in one of the two orders, would leave, and exactly one record of that
\* identity is open.
C18_WritersAreSerialized ==
    (/\ Len(threads.call) = 2
     /\ threads.call[1].pc = "done" /\ threads.call[2].pc = "done"
     /\ SameIdentity(threads.call[1].fact, threads.call[2].fact))
    =>
    /\ table \in { InSequence(threads.base, threads.call[1], threads.call[2]),
                   InSequence(threads.base, threads.call[2], threads.call[1]) }
    /\ Cardinality({ i \in DOMAIN table :
                       IsOpen(table[i]) /\ SameIdentity(table[i], threads.call[1].fact) }) = 1

----------------------------------------------------------------------------
(* AgendaResolver *)

\* active_schedule keeping every fact the agenda keeps
ActiveScheduleWholeAgenda(facts) ==
    SelectSeq(facts, LAMBDA fact :
        fact.category \in {"schedule", "availability", "agenda", "reminder"})

\* active_schedule: [fact for fact in ... if fact.category == "schedule"]
ActiveSchedule(facts) == SelectSeq(facts, LAMBDA fact : fact.category = "schedule")

\* agenda_overview: [fact for fact in ... if fact.category in {...}]
AgendaOverview(facts) ==
    SelectSeq(facts, LAMBDA fact :
        fact.category \in {"schedule", "availability", "agenda", "reminder"})

\* resolver.active_schedule(reference_time)
ActiveScheduleCall(reference_time, clock) ==
    LET t == OrUtcNow(reference_time, clock)
    IN  /\ result' \in { ActiveSchedule(l) : l \in GetActiveFacts(table, t) }
        /\ last' = Call("active_schedule", t, << >>, << t >>, 0, None)
        /\ UNCHANGED <<table, upserts>>
        /\ UNCHANGED elsewhere

\* resolver.agenda_overview(reference_time)
AgendaOverviewCall(reference_time, clock) ==
    LET t == OrUtcNow(reference_time, clock)
    IN  /\ result' \in { AgendaOverview(l) : l \in GetActiveFacts(table, t) }
        /\ last' = Call("agenda_overview", t, << >>, << t >>, 0, None)
        /\ UNCHANGED <<table, upserts>>
        /\ UNCHANGED elsewhere

\* one fact of each agenda category and one of a category outside the agenda
ResolverFacts ==
    { Fact(<< c, "Works Friday", "Fridays 3pm", "HQ" >>, "0.9", "cap-b") :
        c \in {"schedule", "availability", "agenda", "reminder", "note"} }

ResolverTimes == { DateTime(0, 9, 0), DateTime(0, 10, 0) }

ResolverNext ==
    \/ \E f \in ResolverFacts, t \in ResolverTimes : UpsertFactStep(f, t, t, ResolverRows)
    \/ \E t \in ResolverTimes : ActiveScheduleCall(t, t)
    \/ \E c \in ResolverTimes : ActiveScheduleCall(NoTime, c)
    \/ \E t \in ResolverTimes : AgendaOverviewCall(t, t)
    \/ \E c \in ResolverTimes : AgendaOverviewCall(NoTime, c)

SpecResolver == Init /\ [][ResolverNext]_vars

\* the positions of list l whose fact has a category in cats
Positions(l, cats) == { i \in DOMAIN l : l[i].category \in cats }

\* sub holds exactly the facts of l with a category in cats, in the order of l
IsSubsequenceOf(sub, l, cats) ==
    /\ Len(sub) = Cardinality(Positions(l, cats))
    /\ \A k \in DOMAIN sub :
          \E i \in Positions(l, cats) :
              /\ Cardinality({ j \in Positions(l, cats) : j <= i }) = k
              /\ sub[k] = l[i]

\* C13: agenda_overview(t) is the subsequence of get_active_facts(t), in the same order,
\* of the facts with category schedule, availability, agenda or reminder;
\* active_schedule(t) is the subsequence of those with category "schedule"; so
\* active_schedule(t) is a subsequence of agenda_overview(t), and a fact of any other
\* category is in neither.
C13_ResolverFilters ==
    /\ last.op = "agenda_overview" =>
          \E l \in GetActiveFacts(table, last.arg) :
              IsSubsequenceOf(result, l, {"schedule", "availability", "agenda", "reminder"})
    /\ last.op = "active_schedule" =>
          \E l \in GetActiveFacts(table, last.arg) :
              IsSubsequenceOf(result, l, {"schedule"})
    /\ \A t \in ResolverTimes : \A l \in GetActiveFacts(table, t) :
          /\ IsSubsequenceOf(ActiveSchedule(l), AgendaOverview(l), {"schedule"})
          /\ \A i \in DOMAIN l :
                l[i].category \notin {"schedule", "availability", "agenda", "reminder"} =>
                    /\ \A k \in DOMAIN AgendaOverview(l) : AgendaOverview(l)[k] # l[i]
                    /\ \A k \in DOMAIN ActiveSchedule(l) : ActiveSchedule(l)[k] # l[i]

\* active_schedule returned the schedule fact of a store where a reminder and a note are
\* active too
C13_Witness ==
    /\ last.op = "active_schedule"
    /\ Len(result) = 1
    /\ \A l \in GetActiveFacts(table, last.arg) :
          /\ Len(l) = 3
          /\ \E i \in DOMAIN l : l[i].category = "reminder"
          /\ \E i \in DOMAIN l : l[i].category = "note"

----------------------------------------------------------------------------
(* JSON values as Python sees them after json.loads / response.json() *)

JNull == [t |-> "null"]
JStr(s) == [t |-> "str", v |-> s]
\* a float, written as Python prints it
JFloat(x) == [t |-> "float", v |-> x]
JInt(n) == [t |-> "int", v |-> n]
JList(items) == [t |-> "list", v |-> items]
JDict(d) == [t |-> "dict", v |-> d]
\* a str whose content is the JSON document doc, or NotJson
Text(doc) == [t |-> "text", v |-> doc]
NotJson == [t |-> "garbage"]

\* the outcome of an expression: its value, or the exception it raises
Returns(value) == [value |-> value, raised |-> None]
Raises(exc) == [value |-> JNull, raised |-> exc]

\* x[name] for a str key
Item(x, name) ==
    IF x.t = "dict"
    THEN IF name \in DOMAIN x.v THEN Returns(x.v[name]) ELSE Raises("KeyError")
    ELSE Raises("TypeError")

\* x[0]
First(x) ==
    IF x.t = "list"
    THEN IF x.v # << >> THEN Returns(x.v[1]) ELSE Raises("IndexError")
    ELSE IF x.t = "dict" THEN Raises("KeyError") ELSE Raises("TypeError")

\* d.get(name, default) on a dict
Get(d, name, default) == IF name \in DOMAIN d THEN d[name] ELSE default

\* float(str): the texts that Python reads as a number
ParseFloat(s) ==
    CASE s = "0.9" -> Returns("0.9")
      [] s = "0.8" -> Returns("0.8")
      [] s = "1" -> Returns("1.0")
      [] OTHER -> Raises("ValueError")

\* float(x)
Float(x) ==
    CASE x.t = "float" -> Returns(x.v)
      [] x.t = "int" -> Returns(IF x.v = 1 THEN "1.0" ELSE "0.0")
      [] x.t = "str" -> ParseFloat(x.v)
      [] OTHER -> Raises("TypeError")

\* a JSON scalar as the Python value stored in a fact
PyValue(x) == IF x.t = "null" THEN None ELSE x.v

\* from_dict that falls back to confidence 0.0 when float() rejects the value
FromDictLenient(payload, source_capture_id, timestamp) ==
    IF payload.t # "dict" THEN Raises("AttributeError")
    ELSE LET confidence == Float(Get(payload.v, "confidence", JFloat("0.0")))
         IN  Returns(ContextFact(PyValue(Get(payload.v, "category", JStr("unspecified"))),
                                 PyValue(Get(payload.v, "detail", JStr(""))),
                                 PyValue(Get(payload.v, "time_range", JNull)),
                                 PyValue(Get(payload.v, "location", JNull)),
                                 IF confidence.raised # None THEN "0.0" ELSE confidence.value,
                                 source_capture_id, timestamp, NoTime))

\* ContextFact.from_dict(payload, source_capture_id, timestamp)
FromDict(payload, source_capture_id, timestamp) ==
    IF payload.t # "dict" THEN Raises("AttributeError")
    ELSE LET confidence == Float(Get(payload.v, "confidence", JFloat("0.0")))
         IN  IF confidence.raised # None THEN Raises(confidence.raised)
             ELSE Returns(ContextFact(PyValue(Get(payload.v, "category", JStr("unspecified"))),
                                      PyValue(Get(payload.v, "detail", JStr(""))),
                                      PyValue(Get(payload.v, "time_range", JNull)),
                                      PyValue(Get(payload.v, "location", JNull)),
                                      confidence.value,
                                      source_capture_id, timestamp, NoTime))

\* [ContextFact.from_dict(item, capture_id, request_time) for item in items], from item k
RECURSIVE FromDictEach(_, _, _, _)
FromDictEach(items, capture_id, request_time, k) ==
    IF k > Len(items) THEN Returns(<< >>)
    ELSE LET fact == FromDict(items[k], capture_id, request_time)
             rest == FromDictEach(items, capture_id, request_time, k + 1)
         IN  IF fact.raised # None THEN Raises(fact.raised)
             ELSE IF rest.raised # None THEN rest
             ELSE Returns(<< fact.value >> \o rest.value)

\* _extract_text: payload["candidates"][0]["content"]["parts"][0]["text"]
ExtractText(payload) ==
    LET candidates == Item(payload, "candidates")
        candidate == IF candidates.raised = None THEN First(candidates.value) ELSE candidates
        content == IF candidate.raised = None THEN Item(candidate.value, "content") ELSE candidate
        parts == IF content.raised = None THEN Item(content.value, "parts") ELSE content
        part == IF parts.raised = None THEN First(parts.value) ELSE parts
        text == IF part.raised = None THEN Item(part.value, "text") ELSE part
    IN  IF text.raised \in {"KeyError", "IndexError", "TypeError"} THEN Raises("ValueError")
        ELSE text

\* json.loads(text)
JsonLoads(text) ==
    IF text.t = "text"
    THEN IF text.v.t = "garbage" THEN Raises("JSONDecodeError") ELSE Returns(text.v)
    ELSE IF text.t = "str" THEN Raises("JSONDecodeError") ELSE Raises("TypeError")

\* response.raise_for_status()
RaiseForStatus(status) == IF status >= 400 /\ status < 600 THEN "HTTPError" ELSE None

\* the facts payload taken from the parsed document only when it is a bare list
FactsPayloadListOnly(parsed) ==
    IF parsed.t = "dict" THEN JList(<< >>) ELSE parsed

\* parsed.get("facts", []) if isinstance(parsed, dict) else parsed
FactsPayload(parsed) ==
    IF parsed.t = "dict" THEN Get(parsed.v, "facts", JList(<< >>)) ELSE parsed

\* extract(capture, request_time) given the service's response (status 0: none arrived
\* within the timeout): the facts it returns, or the exception it raises
Extract(response, capture_id, request_time) ==
    IF response.status = 0 THEN Raises("Timeout")
    ELSE IF RaiseForStatus(response.status) # None THEN Raises(RaiseForStatus(response.status))
    ELSE LET text == ExtractText(response.body)
             parsed == IF text.raised = None THEN JsonLoads(text.value) ELSE text
             facts_payload == FactsPayload(parsed.value)
         IN  IF parsed.raised # None THEN Raises(parsed.raised)
             ELSE IF facts_payload.t = "list"
                  THEN FromDictEach(facts_payload.v, capture_id, request_time, 1)
             ELSE IF facts_payload.t = "dict"
                  THEN IF DOMAIN facts_payload.v = {} THEN Returns(<< >>)
                       ELSE Raises("AttributeError")
             ELSE Raises("TypeError")

----------------------------------------------------------------------------
(* GeminiFactExtractor.extract and ContextFact.from_dict as calls *)

\* fact payloads the service may generate: complete, empty, with a null and a numeric
\* text, with a confidence that is no number, with a null confidence, with an integer
Payloads ==
    { JDict([category |-> JStr("schedule"), detail |-> JStr("Works Friday"),
             time_range |-> JStr("Fridays 3pm"), location |-> JStr("HQ"),
             confidence |-> JFloat("0.9")]),
      JDict(<< >>),
      JDict([category |-> JStr("reminder"), detail |-> JStr("Call Sam"),
             time_range |-> JNull, confidence |-> JStr("0.8")]),
      JDict([detail |-> JStr("Works Friday"), confidence |-> JStr("high")]),
      JDict([category |-> JStr("agenda"), confidence |-> JNull]),
      JDict([confidence |-> JInt(1)]) }

\* float(x) succeeds
Coercible(x) == x.t \in {"float", "int"} \/ (x.t = "str" /\ x.v \in {"0.9", "0.8", "1"})

\* the payloads from_dict accepts
ValidPayloads ==
    { p \in Payloads : "confidence" \in DOMAIN p.v => Coercible(p.v.confidence) }

\* lists of at most MaxFacts elements of set S
ListsOf(S) == UNION { [1 .. n -> S] : n \in 0 .. MaxFacts }

\* the payloads that generated lists are made of: complete, empty, with a null and a
\* numeric text, with a confidence that is no number
ListedPayloads ==
    { p \in Payloads : "confidence" \in DOMAIN p.v => p.v.confidence.t \in {"float", "str"} }

\* what the generated text may hold: nothing parseable, a list of payloads, an object
\* with that list under `facts`, a list with a str where a payload should be, an object
\* without `facts`, an object with a null `facts`, a number
Documents ==
    { NotJson, JList(<< JStr("schedule") >>), JDict([note |-> JStr("none")]),
      JDict([facts |-> JNull]), JFloat("0.9") }
    \cup { JList(items) : items \in ListsOf(ListedPayloads) }
    \cup { JDict([facts |-> JList(items)]) : items \in ListsOf(ListedPayloads) }

\* the response envelope with text at candidates[0].content.parts[0].text
Envelope(text) ==
    JDict([candidates |->
        JList(<< JDict([content |-> JDict([parts |-> JList(<< JDict([text |-> text]) >>)])]) >>)])

\* envelopes without the text path: no candidates, no candidate, null candidates, no part
BrokenEnvelopes ==
    { JDict([error |-> JStr("quota")]),
      JDict([candidates |-> JList(<< >>)]),
      JDict([candidates |-> JNull]),
      JDict([candidates |-> JList(<< JDict([content |-> JDict([parts |-> JList(<< >>)])]) >>)]) }

\* what http.post may bring back: nothing in time (status 0), an error status, or 200
\* with an envelope
Responses ==
    { [status |-> st, body |-> JNull] : st \in {0, 404, 503} }
    \cup { [status |-> 200, body |-> b] : b \in BrokenEnvelopes }
    \cup { [status |-> 200, body |-> Envelope(Text(doc))] : doc \in Documents }

CaptureIds == {"cap-a", "cap-b"}

\* extractor.extract(capture, request_time) when the service answers with response
ExtractCall(capture_id, request_time, clock, response) ==
    LET t == OrUtcNow(request_time, clock)
        r == Extract(response, capture_id, t)
    IN  /\ input' = [capture_id |-> capture_id, status |-> response.status,
                     body |-> response.body]
        /\ result' = IF r.raised = None THEN r.value ELSE << >>
        /\ last' = Call("extract", t, << >>, << t >>, 0, r.raised)
        /\ UNCHANGED <<table, upserts, conn, threads>>

\* ContextFact.from_dict(payload, capture_id, timestamp)
FromDictCall(payload, capture_id, timestamp) ==
    LET r == FromDict(payload, capture_id, timestamp)
    IN  /\ input' = [capture_id |-> capture_id, status |-> 0, body |-> payload]
        /\ result' = IF r.raised = None THEN << r.value >> ELSE << >>
        /\ last' = Call("from_dict", timestamp, << >>, << >>, 0, r.raised)
        /\ UNCHANGED <<table, upserts, conn, threads>>

ExtractNext ==
    \/ \E id \in CaptureIds, t \in Times, r \in Responses : ExtractCall(id, t, t, r)
    \/ \E id \in CaptureIds, c \in Times, r \in Responses : ExtractCall(id, NoTime, c, r)
    \/ \E p \in Payloads, id \in CaptureIds, t \in Times \cup { NoTime } : FromDictCall(p, id, t)

SpecExtract == Init /\ [][ExtractNext]_vars

\* fact carries what payload p holds under category, detail, time_range, location and
\* confidence
Carries(fact, p) ==
    /\ "category" \in DOMAIN p => fact.category = PyValue(p.category)
    /\ "detail" \in DOMAIN p => fact.detail = PyValue(p.detail)
    /\ "time_range" \in DOMAIN p => fact.time_range = PyValue(p.time_range)
    /\ "location" \in DOMAIN p => fact.location = PyValue(p.location)
    /\ "confidence" \in DOMAIN p => fact.confidence = Float(p.confidence).value

\* C14: when the service answers 200 and the generated text is a JSON list of k fact
\* payloads, or an object holding that list under `facts`, extract returns k facts in
\* payload order; the i-th carries the i-th payload's category, detail, time_range,
\* location and confidence, source_capture_id = capture.capture_id,
\* valid_from = request_time and no valid_to; both shapes give the same result.
C14_ExtractReturnsPayloadFacts ==
    \A items \in ListsOf(ValidPayloads) :
        \A doc \in { JList(items), JDict([facts |-> JList(items)]) } :
            (last.op = "extract" /\ input.status = 200 /\ input.body = Envelope(Text(doc)))
            =>
            /\ last.raised = None
            /\ Len(result) = Len(items)
            /\ \A i \in DOMAIN items :
                  /\ Carries(result[i], items[i].v)
                  /\ result[i].source_capture_id = input.capture_id
                  /\ result[i].valid_from = last.arg
                  /\ result[i].valid_to = NoTime
            /\ Extract([status |-> 200, body |-> Envelope(Text(JList(items)))],
                       input.capture_id, last.arg) = Returns(result)
            /\ Extract([status |-> 200,
                        body |-> Envelope(Text(JDict([facts |-> JList(items)])))],
                       input.capture_id, last.arg) = Returns(result)

\* extract returned two different facts from an object with a `facts` list
C14_Witness ==
    /\ last.op = "extract" /\ last.raised = None
    /\ Len(result) = 2 /\ result[1] # result[2]
    /\ \E items \in ListsOf(ValidPayloads) :
          input.body = Envelope(Text(JDict([facts |-> JList(items)])))

\* why the claim expects extract to fail on response r: "transport" for a status outside
\* 2xx or no answer in time, "malformed" when the text path is missing from the envelope
\* or the text is no JSON, "validation" when a payload's confidence is no number
FailureKind(r) ==
    IF r.status < 200 \/ r.status > 299 THEN "transport"
    ELSE IF r.body \in BrokenEnvelopes \/ r.body = Envelope(Text(NotJson)) THEN "malformed"
    ELSE IF \E items \in ListsOf(ListedPayloads) :
               /\ r.body \in { Envelope(Text(JList(items))),
                               Envelope(Text(JDict([facts |-> JList(items)]))) }
               /\ \E i \in DOMAIN items :
                     /\ "confidence" \in DOMAIN items[i].v
                     /\ ~Coercible(items[i].v.confidence)
         THEN "validation"
    ELSE None

\* C15 (as claimed): extract fails with one of three error kinds that a caller can tell
\* apart: the exception raised for a transport failure, for a malformed response and
\* for a payload that fails validation is never the same for two different kinds; a
\* response without `candidates` raises the malformed-response kind and no other.
C15_ThreeErrorKinds ==
    LET here == [status |-> input.status, body |-> input.body]
    IN  (last.op = "extract" /\ FailureKind(here) # None)
        =>
        /\ last.raised # None
        /\ \A r \in Responses :
              FailureKind(r) \notin { None, FailureKind(here) } =>
                  Extract(r, input.capture_id, last.arg).raised # last.raised

\* C17: from_dict(payload, capture_id, ts) gives category "unspecified", detail "",
\* confidence 0.0, no time_range and no location for the keys the payload lacks, and
\* always source_capture_id = capture_id, valid_from = ts and no valid_to; with a
\* confidence that float() rejects the call raises and yields no fact.
C17_FromDictDefaults ==
    last.op = "from_dict" =>
        LET p == input.body.v
        IN  IF "confidence" \in DOMAIN p /\ ~Coercible(p.confidence)
            THEN last.raised # None /\ result = << >>
            ELSE /\ last.raised = None
                 /\ Len(result) = 1
                 /\ "category" \notin DOMAIN p => result[1].category = "unspecified"
                 /\ "detail" \notin DOMAIN p => result[1].detail = ""
                 /\ "confidence" \notin DOMAIN p => result[1].confidence = "0.0"
                 /\ "time_range" \notin DOMAIN p => result[1].time_range = None
                 /\ "location" \notin DOMAIN p => result[1].location = None
                 /\ Carries(result[1], p)
                 /\ result[1].source_capture_id = input.capture_id
                 /\ result[1].valid_from = last.arg
                 /\ result[1].valid_to = NoTime

\* from_dict built a fact from a payload without category, confidence and location
C17_Witness ==
    /\ last.op = "from_dict" /\ last.raised = None
    /\ Len(result) = 1
    /\ {"category", "confidence", "location"} \cap DOMAIN input.body.v = {}

----------------------------------------------------------------------------
(* Facts that differ from one another in one part of the identity *)

\* IdentityA, and identities that differ from it in exactly one part: an absent
\* time_range, an absent location, another time_range, another location, another
\* wording of the detail, another category
IdentityVariants ==
    { IdentityA, IdentityB,
      << "schedule", "Works Friday", "Fridays 3pm", None >>,
      << "schedule", "Works Friday", "Mondays 9am", "HQ" >>,
      << "schedule", "Works Friday", "Fridays 3pm", "Remote" >>,
      << "schedule", "Works Fridays", "Fridays 3pm", "HQ" >>,
      << "reminder", "Works Friday", "Fridays 3pm", "HQ" >> }

IdentityFacts == { Fact(i, "0.9", "cap-b") : i \in IdentityVariants }

IdentityTimes == { DateTime(0, 9, 0), DateTime(0, 10, 0) }

IdentityNext ==
    \E f \in IdentityFacts, t \in IdentityTimes : UpsertFactStep(f, t, t, IdentityRows)

SpecIdentity == Init /\ [][IdentityNext]_vars

\* values a and b of time_range or location are both absent, or both present and equal
NullAwareEqual(a, b) == (a = None /\ b = None) \/ (a # None /\ b # None /\ a = b)

\* C19: an upsert closes an open record of equal category and detail exactly when its
\* time_range and its location each match the record's NULL-aware: both absent, or
\* both present and equal; an absent value never matches a present one, whichever of
\* the two is the upsert's.
C19_MatchIsNullAware ==
    [][ last'.op = "upsert_fact" =>
          \A i \in DOMAIN table :
              (/\ IsOpen(table[i])
               /\ table[i].category = last'.facts[1].category
               /\ table[i].detail = last'.facts[1].detail)
              =>
              /\ ~IsOpen(table'[i]) <=>
                    /\ NullAwareEqual(table[i].time_range, last'.facts[1].time_range)
                    /\ NullAwareEqual(table[i].location, last'.facts[1].location)
              /\ (last'.facts[1].time_range = None /\ table[i].time_range # None)
                    => IsOpen(table'[i])
              /\ (last'.facts[1].time_range # None /\ table[i].time_range = None)
                    => IsOpen(table'[i])
              /\ (last'.facts[1].location = None /\ table[i].location # None)
                    => IsOpen(table'[i])
              /\ (last'.facts[1].location # None /\ table[i].location = None)
                    => IsOpen(table'[i]) ]_vars

\* an upsert without time_range left open the record that differs from it only in
\* having a time_range, and closed the open record that has none either
C19_Witness ==
    /\ last.op = "upsert_fact"
    /\ Len(table) = 3
    /\ Identity(table[1]) = IdentityA /\ IsOpen(table[1])
    /\ Identity(table[2]) = IdentityB /\ ~IsOpen(table[2])
    /\ Identity(table[3]) = IdentityB /\ IsOpen(table[3])

\* C20: upsert_fact(fact, e) leaves every record of another identity (different
\* category, detail, time_range or location) and every closed record of fact's identity
\* as it was; it only closes the open record of fact's identity and adds one record.
C20_UpsertTouchesOwnOpenRecordOnly ==
    [][ last'.op = "upsert_fact" =>
          LET fact == last'.facts[1]
              stamp == isoformat(last'.arg)
              n == Len(table)
          IN  /\ Len(table') = n + 1
              /\ \A i \in DOMAIN table :
                    IF IsOpen(table[i]) /\ Identity(table[i]) = Identity(fact)
                    THEN table'[i] = [table[i] EXCEPT !.valid_to = stamp]
                    ELSE table'[i] = table[i]
              /\ Identity(table'[n + 1]) = Identity(fact)
              /\ table'[n + 1].valid_from = stamp
              /\ IsOpen(table'[n + 1]) ]_vars

\* the last upsert_fact found a closed and an open record of its identity and an open
\* record that differs only in the wording of the detail
C20_Witness ==
    /\ last.op = "upsert_fact"
    /\ Len(table) = 4
    /\ \E i, j, k \in 1 .. 3 :
          /\ i # j
          /\ Identity(table[i]) = Identity(table[4]) /\ ~IsOpen(table[i])
          /\ Identity(table[j]) = Identity(table[4]) /\ ~IsOpen(table[j])
          /\ IsOpen(table[k])
          /\ table[k].detail # table[4].detail
          /\ table[k].category = table[4].category
          /\ table[k].time_range = table[4].time_range
          /\ table[k].location = table[4].location

----------------------------------------------------------------------------
(* Validity windows of stored records *)

\* C21 (as claimed): after any sequence of upsert_fact calls every closed record has
\* valid_from <= valid_to: a record is closed only by an upsert of its identity with an
\* effective time not earlier than its valid_from.
C21_ClosedWindowNotReversed ==
    \A i \in DOMAIN table :
        ~IsOpen(table[i]) =>
            DtLeq(fromisoformat(table[i].valid_from), fromisoformat(table[i].valid_to))

----------------------------------------------------------------------------
(* Facts that come with validity stamps: from extract (valid_from = request time) or
   from get_active_facts (valid_from and maybe valid_to of a stored record) *)

StampedTimes == { DateTime(0, 9, 0), DateTime(0, 10, 0) }

StampedFacts ==
    { [f EXCEPT !.valid_from = vf, !.valid_to = vt] :
        f \in { Fact(IdentityA, "0.9", "cap-b"), Fact(IdentityA, None, "cap-c") },
        vf \in StampedTimes \cup { NoTime },
        vt \in StampedTimes \cup { NoTime } }

StampedNext ==
    \/ \E f \in StampedFacts, t \in StampedTimes : UpsertFactStep(f, t, t, StampedRows)
    \/ \E f \in StampedFacts, c \in StampedTimes : UpsertFactStep(f, NoTime, c, StampedRows)

SpecStamped == Init /\ [][StampedNext]_vars

\* C22: a successful upsert_fact(fact, e) adds exactly one record; it has valid_from = e,
\* no valid_to, and fact's category, detail, time_range, location, confidence and
\* source_capture_id, whatever valid_from and valid_to the fact itself holds.
C22_InsertedRecordCopiesFact ==
    [][ (last'.op = "upsert_fact" /\ last'.raised = None)
        =>
        LET fact == last'.facts[1]
            new == table'[Len(table')]
        IN  /\ Len(table') = Len(table) + 1
            /\ new.valid_from = isoformat(last'.arg)
            /\ new.valid_to = NoTime
            /\ new.category = fact.category
            /\ new.detail = fact.detail
            /\ new.time_range = fact.time_range
            /\ new.location = fact.location
            /\ new.confidence = fact.confidence
            /\ new.source_capture_id = fact.source_capture_id ]_vars

\* upsert_fact stored a fact that came with a valid_from other than the effective time
\* and with a valid_to
C22_Witness ==
    /\ last.op = "upsert_fact" /\ last.raised = None
    /\ last.facts[1].valid_from \notin { NoTime, last.arg }
    /\ last.facts[1].valid_to # NoTime
    /\ Len(table) = 2

----------------------------------------------------------------------------
(* Unexpected documents in the generated text *)

\* x is a JSON list whose items are all objects
IsPayloadList(x) == x.t = "list" /\ \A i \in DOMAIN x.v : x.v[i].t = "dict"

\* doc has one of the two shapes the prompt asks for: a list of fact payloads, or an
\* object holding such a list under `facts`
ExpectedShape(doc) ==
    \/ IsPayloadList(doc)
    \/ doc.t = "dict" /\ "facts" \in DOMAIN doc.v /\ IsPayloadList(doc.v.facts)

\* C23 (as claimed): when the generated text is JSON of neither expected shape (for
\* example an object without a `facts` key), extract raises an error; it never returns
\* an empty list for it.
C23_UnexpectedDocumentRaises ==
    \A doc \in Documents :
        (/\ last.op = "extract"
         /\ input.status = 200
         /\ input.body = Envelope(Text(doc))
         /\ doc.t # "garbage"
         /\ ~ExpectedShape(doc))
        => last.raised # None

----------------------------------------------------------------------------
(* The read side: get_active_facts and the three AgendaResolver methods *)

\* format_for_response(facts): one dict per fact, the datetimes as ISO text
FormatForResponse(facts) ==
    [i \in DOMAIN facts |->
        [category |-> facts[i].category, detail |-> facts[i].detail,
         time_range |-> facts[i].time_range, location |-> facts[i].location,
         confidence |-> facts[i].confidence,
         source_capture_id |-> facts[i].source_capture_id,
         valid_from |-> IF facts[i].valid_from # NoTime
                        THEN isoformat(facts[i].valid_from) ELSE NoTime,
         valid_to |-> IF facts[i].valid_to # NoTime
                      THEN isoformat(facts[i].valid_to) ELSE NoTime]]

\* resolver.format_for_response(facts) on the facts a read has just returned
FormatForResponseCall ==
    /\ last.op \in {"get_active_facts", "active_schedule", "agenda_overview"}
    /\ result' = FormatForResponse(result)
    /\ last' = Call("format_for_response", last.arg, << >>, << >>, 0, None)
    /\ UNCHANGED <<table, upserts>>
    /\ UNCHANGED elsewhere

\* a schedule fact, another agenda fact and one outside the agenda
ReadSideFacts == { f \in ResolverFacts : f.category \in {"schedule", "reminder", "note"} }

ReadSideNext ==
    \/ \E f \in ReadSideFacts, t \in ResolverTimes : UpsertFactStep(f, t, t, ResolverRows)
    \/ \E t \in ResolverTimes : GetActiveFactsCall(t, t)
    \/ \E c \in ResolverTimes : GetActiveFactsCall(NoTime, c)
    \/ \E t \in ResolverTimes : ActiveScheduleCall(t, t)
    \/ \E c \in ResolverTimes : ActiveScheduleCall(NoTime, c)
    \/ \E t \in ResolverTimes : AgendaOverviewCall(t, t)
    \/ \E c \in ResolverTimes : AgendaOverviewCall(NoTime, c)
    \/ FormatForResponseCall

SpecReadSide == Init /\ [][ReadSideNext]_vars

\* C24: get_active_facts, active_schedule, agenda_overview and format_for_response
\* leave the store as it was: the same records, every field of every record the same.
C24_ReadsLeaveStoreUnchanged ==
    [][ last'.op \in {"get_active_facts", "active_schedule", "agenda_overview",
                      "format_for_response"}
        => table' = table ]_vars

\* format_for_response has formatted two facts read from a store that holds a closed
\* record too
C24_Witness ==
    /\ last.op = "format_for_response"
    /\ Len(result) = 2
    /\ \E i \in DOMAIN table : ~IsOpen(table[i])

----------------------------------------------------------------------------
(* History under later writes *)

\* C25 (as claimed): an upsert_fact with an effective time strictly greater than t leaves
\* the result of get_active_facts(t) unchanged, for every store state and every t.
C25_HistoryUnchangedByLaterUpsert ==
    [][ last'.op = "upsert_fact" =>
          \A t \in Times :
              DtLess(t, last'.arg) => GetActiveFacts(table', t) = GetActiveFacts(table, t)
      ]_vars

\* a result list after upsert_fact(fact, e): the facts of fact's identity that were open
\* carry valid_to = e, every other fact is as it was
Superseded(res, fact, e) ==
    [k \in DOMAIN res |->
        IF SameIdentity(res[k], fact) /\ res[k].valid_to = NoTime
        THEN [res[k] EXCEPT !.valid_to = e]
        ELSE res[k]]

\* C25 (amended): a successful upsert_fact(fact, e) with e strictly greater than t
\* leaves get_active_facts(t) with the same records in the same order and every field
\* the same, except that the record of fact's identity that was open now carries
\* valid_to = e.
C25_HistoryKeepsRecordsUnderLaterUpsert ==
    [][ (last'.op = "upsert_fact" /\ last'.raised = None) =>
          \A t \in Times :
              DtLess(t, last'.arg) =>
                  GetActiveFacts(table', t) =
                      { Superseded(res, last'.facts[1], last'.arg) :
                          res \in GetActiveFacts(table, t) } ]_vars

\* the last upsert_fact closed a record that is active at an earlier time, next to an
\* active record of another identity
C25_Witness ==
    /\ last.op = "upsert_fact" /\ last.raised = None
    /\ \E t \in Times :
          /\ DtLess(t, last.arg)
          /\ \E res \in GetActiveFacts(table, t) :
                /\ Len(res) = 2
                /\ \E k \in DOMAIN res :
                      SameIdentity(res[k], last.facts[1]) /\ res[k].valid_to = last.arg
                /\ \E k \in DOMAIN res : ~SameIdentity(res[k], last.facts[1])

----------------------------------------------------------------------------
(* Two upserts of one identity at the same effective time *)

\* C26 (as claimed): when two upsert_fact calls in a row are of the same identity and
\* share the effective time e, the record of the first ends with valid_from = valid_to
\* = e and is returned by get_active_facts(t) for no t, and for every t >= e
\* get_active_facts(t) returns only the record of the second for that identity.
C26_SameTimeUpsertsLeaveTheLater ==
    [][ (/\ last.op = "upsert_fact" /\ last.raised = None
         /\ last'.op = "upsert_fact" /\ last'.raised = None
         /\ SameIdentity(last.facts[1], last'.facts[1])
         /\ last'.arg = last.arg
         /\ Len(table') = Len(table) + 1)
        =>
        LET n == Len(table)
            e == last.arg
            idt == Identity(last'.facts[1])
        IN  /\ table'[n].valid_from = isoformat(e)
            /\ table'[n].valid_to = isoformat(e)
            /\ \A t \in Times : \A res \in GetActiveFacts(table', t) :
                  \A k \in OfIdentity(res, idt) :
                      ~(res[k].valid_from = e /\ res[k].valid_to = e)
            /\ \A t \in Times :
                  DtLeq(e, t) =>
                      \A res \in GetActiveFacts(table', t) :
                          /\ Cardinality(OfIdentity(res, idt)) = 1
                          /\ \A k \in OfIdentity(res, idt) : res[k] = AsFact(table'[n + 1])
      ]_vars

====
